---- MODULE Spec2Model ----
(***************************************************************************)
(* BYODT (src/main.rs): the fetch/refresh orchestration of the TRMNL       *)
(* display simulator.                                                      *)
(*                                                                         *)
(*   main         spawns web_calls and races ctrl_c against run_display    *)
(*   web_calls    the Poller: interruptible wait, status request, image    *)
(*                fetch, send on the image channel, interval update        *)
(*   run_display  the Renderer: try_recv, draw, window events, 250ms sleep *)
(*                                                                         *)
(* A state of the model is taken at the await points of the two futures;   *)
(* the synchronous code between two await points is one action.            *)
(***************************************************************************)
EXTENDS Integers, Sequences, FiniteSets, TLC

(***************************************************************************)
(* Bounds of the model                                                     *)
(***************************************************************************)
\* number of images the remote service hands out in one run
MaxImages == 6
\* number of window events delivered in one tick
MaxEvents == 2

(***************************************************************************)
(* Program constants                                                       *)
(***************************************************************************)
\* mpsc::channel::<Message>(5)
ImageChannelCapacity == 5
\* mpsc::channel::<()>(1)
BailChannelCapacity == 1
\* let mut sleep_time = 600; and the reset in the None arm of refresh_rate
DefaultSleepTime == 600
\* if resp.status == 500
FailureStatus == 500

\* Option::<u64>::None of refresh_rate, a value outside u64
None == -1
\* refresh_rate values the service may send (u64 seconds)
RefreshRates == {30}
\* status values the service may send (u16); 0 "looks to be a success"
Statuses == {0, 200, FailureStatus}
\* SimulatorEvent: Quit, KeyDown(Return), anything else
Events == {"Quit", "Return", "Other"}

\* DisplayResponse, the fields web_calls reads
DisplayResponse ==
    [status : Statuses, error : BOOLEAN, image_url : BOOLEAN,
     refresh_rate : RefreshRates \cup {None}]

NoResp == [status |-> 0, error |-> FALSE, image_url |-> FALSE, refresh_rate |-> None]
\* Message::NewImage(bytes): seq is the order of production, bmp says whether
\* Bmp::from_slice accepts the bytes
NoBytes == [seq |-> 0, bmp |-> TRUE]
\* no unit consumed from the bail channel
NoToken == [in_wait |-> FALSE, resent |-> FALSE, none |-> TRUE]

VARIABLES
    main,        \* "select" | "exiting" | "exited"
    exit_code,   \* "none" while running; "ok" = main returned Ok(()); "panic"
    rpc,         \* run_display: "sleep" | "send" | "returned" | "cancelled" | "panicked"
    pending,     \* events of the current batch not yet handled (run_display in send)
    display,     \* seq of the image last drawn on the SimulatorDisplay (0 = blank)
    frame,       \* parity of the number of window.update(&display) calls
    chan,        \* (tx, rx): queued Message::NewImage
    bail,        \* (early_timeout_bail_sender, _receiver): queued units
    ppc,         \* web_calls: "top" | "wait" | "request" | "body" | "parsed" | "fetch" | "send"
                 \*            | "failed" | "cancelled"
    sleep_time,  \* web_calls: sleep_time
    first_run,   \* web_calls: first_run
    timer,       \* duration of the sleep armed by the select! (0 = none armed);
                 \* kept, like fired and consumed, until the request after it is over
    fired,       \* the armed sleep has elapsed
    resp,        \* web_calls: resp of the current cycle
    new_bytes,   \* web_calls: new_bytes of the current cycle
    produced,    \* number of images fetched so far
    pstep,       \* the branch web_calls took last (its last log line)
    consumed     \* the unit the recv arm of the select! took from the bail channel

vars == <<main, exit_code, rpc, pending, display, frame, chan, bail, ppc, sleep_time,
          first_run, timer, fired, resp, new_bytes, produced, pstep, consumed>>

rvars == <<rpc, pending, display, frame>>
pvars == <<ppc, sleep_time, first_run, timer, fired, resp, new_bytes, produced,
           pstep, consumed>>

RECURSIVE SeqsUpTo(_, _)
SeqsUpTo(S, n) ==
    IF n = 0 THEN {<<>>}
    ELSE LET shorter == SeqsUpTo(S, n - 1)
         IN  shorter \cup {Append(s, e) : s \in {t \in shorter : Len(t) = n - 1}, e \in S}

(***************************************************************************)
(* Channel ends                                                            *)
(***************************************************************************)
\* run_display has ended: rx and early_timeout_bail (sender) are dropped
RendererGone == rpc \in {"returned", "cancelled", "panicked"}
\* web_calls has ended: sender (tx) and early_timeout_bail (receiver) are dropped
PollerGone == ppc \in {"failed", "cancelled"}

Init ==
    /\ main = "select"
    /\ exit_code = "none"
    /\ rpc = "sleep"
    /\ pending = <<>>
    /\ display = 0
    /\ frame = 0
    /\ chan = <<>>
    /\ bail = <<>>
    /\ ppc = "top"
    /\ sleep_time = DefaultSleepTime
    /\ first_run = TRUE
    /\ timer = 0
    /\ fired = FALSE
    /\ resp = NoResp
    /\ new_bytes = NoBytes
    /\ produced = 0
    /\ pstep = "start"
    /\ consumed = NoToken

(***************************************************************************)
(* web_calls                                                               *)
(***************************************************************************)
PollerRuns == main # "exited" /\ ~PollerGone

\* (mutation) the select! arm awaits the closing of the channel, not a unit
RecvReadyOnClose == RendererGone

\* early_timeout_bail.recv() is ready: a unit is queued, or every sender is
\* dropped and recv() yields None
RecvReady == bail # <<>> \/ RendererGone

\* the recv arm of the select!: take the queued unit, if there is one
TakeUnit ==
    /\ consumed' = IF bail # <<>> THEN Head(bail) ELSE NoToken
    /\ bail' = IF bail # <<>> THEN Tail(bail) ELSE bail
    /\ pstep' = "refreshing_now"
    /\ ppc' = "request"

\* (mutation) first_run is never cleared
web_calls_loop_top_first_run_kept ==
    /\ PollerRuns
    /\ ppc = "top"
    /\ IF first_run
       THEN /\ first_run' = first_run
            /\ ppc' = "request"
            /\ pstep' = "first_run"
            /\ UNCHANGED <<timer, fired, bail, consumed>>
       ELSE /\ timer' = sleep_time
            /\ fired' = FALSE
            /\ first_run' = first_run
            /\ IF RecvReady
               THEN TakeUnit
               ELSE /\ ppc' = "wait"
                    /\ pstep' = "sleeping"
                    /\ UNCHANGED <<bail, consumed>>
    /\ UNCHANGED <<main, exit_code, rvars, chan, sleep_time, resp, new_bytes, produced>>

\* loop head: the first iteration goes straight to the request, every later
\* one arms sleep(sleep_time) and polls the select! once
web_calls_loop_top ==
    /\ PollerRuns
    /\ ppc = "top"
    /\ IF first_run
       THEN /\ first_run' = FALSE
            /\ ppc' = "request"
            /\ pstep' = "first_run"
            /\ UNCHANGED <<timer, fired, bail, consumed>>
       ELSE /\ timer' = sleep_time
            /\ fired' = FALSE
            /\ first_run' = first_run
            /\ IF RecvReady
               THEN TakeUnit
               ELSE /\ ppc' = "wait"
                    /\ pstep' = "sleeping"
                    /\ UNCHANGED <<bail, consumed>>
    /\ UNCHANGED <<main, exit_code, rvars, chan, sleep_time, resp, new_bytes, produced>>

\* the armed sleep elapses
web_calls_timer ==
    /\ PollerRuns
    /\ ppc = "wait"
    /\ ~fired
    /\ fired' = TRUE
    /\ UNCHANGED <<main, exit_code, rvars, chan, bail, ppc, sleep_time, first_run,
                   timer, resp, new_bytes, produced, pstep, consumed>>

\* the select! completes with the sleep arm
web_calls_timeout ==
    /\ PollerRuns
    /\ ppc = "wait"
    /\ fired
    /\ ppc' = "request"
    /\ pstep' = "timeout"
    /\ UNCHANGED <<main, exit_code, rvars, chan, bail, sleep_time, first_run,
                   timer, fired, resp, new_bytes, produced, consumed>>

\* the select! completes with the recv arm ("Refreshing now")
web_calls_early_wake ==
    /\ PollerRuns
    /\ ppc = "wait"
    /\ RecvReady
    /\ TakeUnit
    /\ UNCHANGED <<main, exit_code, rvars, chan, sleep_time, first_run,
                   timer, fired, resp, new_bytes, produced>>

\* (mutation) the skipped cycle falls back to the default interval
ContinueWithDefault(step) ==
    /\ ppc' = "top"
    /\ pstep' = step
    /\ sleep_time' = DefaultSleepTime
    /\ UNCHANGED <<new_bytes, produced, chan>>

\* `continue`: back to the loop head, nothing else touched
Continue(step) ==
    /\ ppc' = "top"
    /\ pstep' = step
    /\ UNCHANGED <<sleep_time, new_bytes, produced, chan>>

\* (mutation) the error is logged and the cycle skipped
FailSwallowed(step) ==
    /\ ppc' = "top"
    /\ pstep' = step
    /\ UNCHANGED <<sleep_time, new_bytes, produced, chan>>

\* `return Err(..)` or `?`: web_calls ends
Fail(step) ==
    /\ ppc' = "failed"
    /\ pstep' = step
    /\ UNCHANGED <<sleep_time, new_bytes, produced, chan>>

\* client.get(".../api/display").send().await; the select! before it is over
\* and its sleep is dropped
web_calls_status_request ==
    /\ PollerRuns
    /\ ppc = "request"
    /\ \/ Continue("get_failed") /\ resp' = resp
       \/ /\ ppc' = "body"
          /\ pstep' = "got_response"
          /\ UNCHANGED <<sleep_time, resp, new_bytes, produced, chan>>
    /\ consumed' = NoToken
    /\ timer' = 0
    /\ fired' = FALSE
    /\ UNCHANGED <<main, exit_code, rvars, bail, first_run>>

\* (mutation) every status but 0 is a failure
IsApiFailureNonZero(d) == d.status # 0

\* (mutation) the failure branch is taken only when an error message came
IsApiFailureWithMessage(d) == d.status = FailureStatus /\ d.error

\* if resp.status == 500
IsApiFailure(d) == d.status = FailureStatus

\* a directive that leads to an image fetch
IsSuccess(d) == ~IsApiFailure(d) /\ d.image_url

\* result.text().await?, then serde_json::from_str and `let resp = parse_result?`
web_calls_body ==
    /\ PollerRuns
    /\ ppc = "body"
    /\ \/ Fail("body_failed") /\ resp' = resp
       \/ Continue("parse_failed") /\ resp' = resp
       \/ \E d \in DisplayResponse :
            /\ IsSuccess(d) => produced < MaxImages
            /\ resp' = d
            /\ ppc' = "parsed"
            /\ pstep' = "parsed"
            /\ UNCHANGED <<sleep_time, new_bytes, produced, chan>>
    /\ UNCHANGED <<main, exit_code, rvars, bail, first_run, timer, fired, consumed>>

\* the branch on resp.status and the Some/None test of resp.image_url
web_calls_dispatch ==
    /\ PollerRuns
    /\ ppc = "parsed"
    /\ IF IsApiFailure(resp)
       THEN /\ Continue(IF resp.error THEN "api_error" ELSE "api_error_unknown")
            /\ resp' = NoResp
       ELSE IF ~resp.image_url
       THEN /\ Fail("no_image_url")
            /\ resp' = NoResp
       ELSE /\ ppc' = "fetch"
            /\ pstep' = "fetching"
            /\ UNCHANGED <<sleep_time, resp, new_bytes, produced, chan>>
    /\ UNCHANGED <<main, exit_code, rvars, bail, first_run, timer, fired, consumed>>

\* (mutation) the None arm keeps the interval of the earlier directive
NextSleepTimeKept ==
    IF resp.refresh_rate = None THEN sleep_time ELSE resp.refresh_rate

\* match resp.refresh_rate
NextSleepTime ==
    IF resp.refresh_rate = None THEN DefaultSleepTime ELSE resp.refresh_rate

\* (mutation) a full channel drops the message (try_send) and the cycle goes on
SendImageDropWhenFull(bytes) ==
    IF RendererGone
    THEN /\ ppc' = "failed"
         /\ pstep' = "send_failed"
         /\ new_bytes' = NoBytes
         /\ resp' = NoResp
         /\ UNCHANGED <<chan, sleep_time>>
    ELSE /\ chan' = IF Len(chan) < ImageChannelCapacity
                    THEN Append(chan, bytes) ELSE chan
         /\ sleep_time' = NextSleepTime
         /\ resp' = NoResp
         /\ new_bytes' = NoBytes
         /\ ppc' = "top"
         /\ pstep' = "enqueued"

\* (mutation) the channel hands out the newest message first
SendImageAtFront(bytes) ==
    IF RendererGone
    THEN /\ ppc' = "failed"
         /\ pstep' = "send_failed"
         /\ new_bytes' = NoBytes
         /\ resp' = NoResp
         /\ UNCHANGED <<chan, sleep_time>>
    ELSE IF Len(chan) < ImageChannelCapacity
    THEN /\ chan' = <<bytes>> \o chan
         /\ sleep_time' = NextSleepTime
         /\ resp' = NoResp
         /\ new_bytes' = NoBytes
         /\ ppc' = "top"
         /\ pstep' = "enqueued"
    ELSE /\ ppc' = "send"
         /\ pstep' = "send_blocked"
         /\ new_bytes' = bytes
         /\ UNCHANGED <<chan, sleep_time, resp>>

\* sender.send(Message::NewImage(bytes)).await and what follows it
SendImage(bytes) ==
    IF RendererGone
    THEN /\ ppc' = "failed"
         /\ pstep' = "send_failed"
         /\ new_bytes' = NoBytes
         /\ resp' = NoResp
         /\ UNCHANGED <<chan, sleep_time>>
    ELSE IF Len(chan) < ImageChannelCapacity
    THEN /\ chan' = Append(chan, bytes)
         /\ sleep_time' = NextSleepTime
         /\ resp' = NoResp
         /\ new_bytes' = NoBytes
         /\ ppc' = "top"
         /\ pstep' = "enqueued"
    ELSE /\ ppc' = "send"
         /\ pstep' = "send_blocked"
         /\ new_bytes' = bytes
         /\ UNCHANGED <<chan, sleep_time, resp>>

\* the queued images Bmp::from_slice rejects. run_display panics on the first
\* of them, so the images queued behind it are never decoded: whether they are
\* bitmaps decides nothing, and they are taken to be
BadQueued == Cardinality({i \in 1..Len(chan) : ~chan[i].bmp})

\* client.get(image_url).send().await?.bytes().await?.to_vec(), then the send
web_calls_fetch ==
    /\ PollerRuns
    /\ ppc = "fetch"
    /\ \/ Fail("fetch_failed") /\ resp' = NoResp
       \/ \E ok \in BOOLEAN :
            /\ ok \/ BadQueued = 0
            /\ produced' = produced + 1
            /\ SendImage([seq |-> produced + 1, bmp |-> ok])
    /\ UNCHANGED <<main, exit_code, rvars, bail, first_run, timer, fired, consumed>>

\* the suspended send is woken: a slot was freed or rx was dropped
web_calls_send_resume ==
    /\ PollerRuns
    /\ ppc = "send"
    /\ RendererGone \/ Len(chan) < ImageChannelCapacity
    /\ SendImage(new_bytes)
    /\ UNCHANGED <<main, exit_code, rvars, bail, first_run, timer, fired, consumed,
                   produced>>

(***************************************************************************)
(* run_display                                                             *)
(***************************************************************************)
RendererRuns == main = "select" /\ ~RendererGone

\* the unit early_timeout_bail.send(()) queues; in_wait and resent record
\* when it was queued and whether the send had been suspended
Unit(resent) == [in_wait |-> ppc = "wait", resent |-> resent, none |-> FALSE]

\* early_timeout_bail.send(()).await can complete at once: there is room, or
\* the receiver is dropped and the send returns Err (ignored by `let _ =`)
BailSendReady(q) == PollerGone \/ Len(q) < BailChannelCapacity

\* the bail channel after a completed send
BailAfterSend(q, resent) == IF PollerGone THEN q ELSE Append(q, Unit(resent))

\* (mutation) a Quit is noted and acted on when the batch is done
RECURSIVE HandleEventsQuitLast(_, _)
HandleEventsQuitLast(evs, q) ==
    IF evs = <<>>
    THEN [pc |-> "sleep", pending |-> <<>>, bail |-> q]
    ELSE CASE Head(evs) = "Quit" ->
                LET r == HandleEventsQuitLast(Tail(evs), q)
                IN  [pc |-> "returned", pending |-> <<>>, bail |-> r.bail]
           [] Head(evs) = "Return" ->
                IF BailSendReady(q)
                THEN HandleEventsQuitLast(Tail(evs), BailAfterSend(q, FALSE))
                ELSE [pc |-> "send", pending |-> Tail(evs), bail |-> q]
           [] OTHER -> HandleEventsQuitLast(Tail(evs), q)

\* for event in window.events() { match event {..} }: runs until the batch is
\* done, a Quit returns, or a send suspends
RECURSIVE HandleEvents(_, _)
HandleEvents(evs, q) ==
    IF evs = <<>>
    THEN [pc |-> "sleep", pending |-> <<>>, bail |-> q]
    ELSE CASE Head(evs) = "Quit" ->
                [pc |-> "returned", pending |-> <<>>, bail |-> q]
           [] Head(evs) = "Return" ->
                IF BailSendReady(q)
                THEN HandleEvents(Tail(evs), BailAfterSend(q, FALSE))
                ELSE [pc |-> "send", pending |-> Tail(evs), bail |-> q]
           [] OTHER -> HandleEvents(Tail(evs), q)

\* the state run_display reaches after the events; when it returns, the
\* select! in main completes and main returns Ok(())
AfterEvents(r) ==
    /\ rpc' = r.pc
    /\ pending' = r.pending
    /\ bail' = r.bail
    /\ main' = IF r.pc = "returned" THEN "exiting" ELSE main
    /\ exit_code' = IF r.pc = "returned" THEN "ok" ELSE exit_code

\* Bmp::<BinaryColor>::from_slice(&bmp_bytes).unwrap() panics
DecodePanics(msg) == ~msg.bmp

\* (mutation) the iteration waits for a message (rx.recv().await)
run_display_tick_recv ==
    /\ RendererRuns
    /\ rpc = "sleep"
    /\ chan # <<>>
    /\ \E evs \in SeqsUpTo(Events, MaxEvents) :
         IF DecodePanics(Head(chan))
         THEN /\ chan' = <<>>
              /\ rpc' = "panicked"
              /\ main' = "exiting"
              /\ exit_code' = "panic"
              /\ UNCHANGED <<pending, display, frame, bail>>
         ELSE /\ display' = Head(chan).seq
              /\ frame' = 1 - frame
              /\ AfterEvents(HandleEvents(evs, bail))
              /\ chan' = IF rpc' = "returned" THEN <<>> ELSE Tail(chan)
    /\ UNCHANGED pvars

\* one iteration of the loop, entered when the 250ms sleep is over:
\* try_recv, draw, window.update, the events
run_display_tick ==
    /\ RendererRuns
    /\ rpc = "sleep"
    /\ \E evs \in SeqsUpTo(Events, MaxEvents) :
         IF chan # <<>> /\ DecodePanics(Head(chan))
         THEN /\ chan' = <<>>
              /\ rpc' = "panicked"
              /\ main' = "exiting"
              /\ exit_code' = "panic"
              /\ UNCHANGED <<pending, display, frame, bail>>
         ELSE /\ display' = IF chan # <<>> THEN Head(chan).seq ELSE display
              /\ frame' = 1 - frame
              /\ AfterEvents(HandleEvents(evs, bail))
              /\ chan' = IF rpc' = "returned" THEN <<>>
                         ELSE IF chan # <<>> THEN Tail(chan) ELSE chan
    /\ UNCHANGED pvars

\* the suspended early_timeout_bail.send(()) completes, the rest of the batch
\* is handled
run_display_send_resume ==
    /\ RendererRuns
    /\ rpc = "send"
    /\ BailSendReady(bail)
    /\ AfterEvents(HandleEvents(pending, BailAfterSend(bail, TRUE)))
    /\ chan' = IF rpc' = "returned" THEN <<>> ELSE chan
    /\ UNCHANGED <<display, frame, pvars>>

(***************************************************************************)
(* main                                                                    *)
(***************************************************************************)
\* (mutation) main returns on Ctrl-C while run_display lives on in a task of
\* its own
main_ctrl_c_detached ==
    /\ main = "select"
    /\ main' = "exiting"
    /\ exit_code' = "ok"
    /\ UNCHANGED <<rvars, chan, bail, pvars>>

\* the ctrl_c arm of the select!: run_display is dropped (and with it rx,
\* which drops the queued messages), main returns Ok(())
main_ctrl_c ==
    /\ main = "select"
    /\ main' = "exiting"
    /\ exit_code' = "ok"
    /\ rpc' = "cancelled"
    /\ pending' = <<>>
    /\ chan' = <<>>
    /\ UNCHANGED <<display, frame, bail, pvars>>

\* main has returned (or panicked): the runtime shuts down, the spawned
\* web_calls task is dropped at its await point, and the process is gone
\* with all it held; what is left is how each loop ended and the exit status
main_exit ==
    /\ main = "exiting"
    /\ main' = "exited"
    /\ ppc' = IF PollerGone THEN ppc ELSE "cancelled"
    /\ display' = 0
    /\ frame' = 0
    /\ bail' = <<>>
    /\ sleep_time' = DefaultSleepTime
    /\ first_run' = FALSE
    /\ timer' = 0
    /\ fired' = FALSE
    /\ resp' = NoResp
    /\ new_bytes' = NoBytes
    /\ produced' = 0
    /\ pstep' = "dropped"
    /\ consumed' = NoToken
    /\ UNCHANGED <<exit_code, rpc, pending, chan>>

Next ==
    \/ web_calls_loop_top
    \/ web_calls_timer
    \/ web_calls_timeout
    \/ web_calls_early_wake
    \/ web_calls_status_request
    \/ web_calls_body
    \/ web_calls_dispatch
    \/ web_calls_fetch
    \/ web_calls_send_resume
    \/ run_display_tick
    \/ run_display_send_resume
    \/ main_ctrl_c
    \/ main_exit

Spec == Init /\ [][Next]_vars

\* The runtime polls a task whose await is ready, timers elapse, and the
\* tick sleep ends; the network, the window events and Ctrl-C are not forced.
FairSpec ==
    /\ Spec
    /\ WF_vars(web_calls_loop_top)
    /\ WF_vars(web_calls_timer)
    /\ WF_vars(web_calls_timeout \/ web_calls_early_wake)
    /\ WF_vars(web_calls_send_resume)
    /\ WF_vars(run_display_tick)
    /\ WF_vars(run_display_send_resume)
    /\ WF_vars(main_exit)

TypeOK ==
    /\ main \in {"select", "exiting", "exited"}
    /\ exit_code \in {"none", "ok", "panic"}
    /\ rpc \in {"sleep", "send", "returned", "cancelled", "panicked"}
    /\ ppc \in {"top", "wait", "request", "body", "parsed", "fetch", "send",
                "failed", "cancelled"}
    /\ Len(chan) <= ImageChannelCapacity
    /\ Len(bail) <= BailChannelCapacity
    /\ sleep_time \in RefreshRates \cup {DefaultSleepTime}
    /\ produced \in 0..MaxImages

(***************************************************************************)
(* Shutdown                                                                *)
(***************************************************************************)
\* C1: whenever web_calls has ended with a fatal error (no image_url on a
\* non-failure status, or the image channel closed on send), run_display is
\* cancelled too: the Renderer does not keep ticking for ever.
C1_FatalPollerStopsRenderer ==
    (ppc = "failed" /\ pstep \in {"no_image_url", "send_failed"}) ~> RendererGone

\* the ctrl_c arm was taken: main left the select! with Ok(()) and not because
\* run_display returned
SignalTaken == main # "select" /\ exit_code = "ok" /\ rpc # "returned"

\* C2: once Ctrl-C is taken, wherever the two loops were, run_display is
\* gone, the process exits with Ok(()) and web_calls is stopped by then, and
\* no further payload is enqueued or drawn.
C2_CtrlCStopsBothLoops ==
    /\ [](SignalTaken =>
            /\ RendererGone
            /\ chan = <<>>
            /\ main = "exiting" => ENABLED main_exit
            /\ main = "exited" => PollerGone)
    /\ [][SignalTaken /\ main' # "exited" =>
            /\ exit_code' = "ok"
            /\ display' = display
            /\ frame' = frame
            /\ chan' = <<>>]_vars

\* Ctrl-C was taken while web_calls was suspended sending on the full image
\* channel and run_display had a frame on the display
C2_Witness ==
    /\ SignalTaken
    /\ main = "exiting"
    /\ ppc = "send"
    /\ display > 0

(***************************************************************************)
(* The interrupt (bail) channel                                            *)
(***************************************************************************)
\* C3: a force-refresh send never blocks run_display: its only suspension
\* point is the tick sleep.
C3_RendererOnlySleeps == rpc # "send"

\* web_calls was just woken by a unit of the bail channel
WokenByUnit == ppc = "request" /\ pstep = "refreshing_now" /\ ~consumed.none

\* C4: the force-refresh requests issued before web_calls consumes one wake
\* it once: no wake is caused by a request that was already issued when an
\* earlier unit was consumed (one whose send had been suspended on the full
\* channel).
C4_RequestsCollapseToOneWake == WokenByUnit => ~consumed.resent

\* C5: a unit sent while web_calls was not in its interruptible wait never
\* ends (skips) a later wait.
C5_NoWakeBySignalSentOutsideWait == WokenByUnit => consumed.in_wait

\* C6: a unit queued while web_calls is in its wait can end the wait at once,
\* before the sleep has elapsed; the wait ends only by the sleep having
\* elapsed or by the recv arm, and either way the status request is next.
C6_SignalEndsWaitEarly ==
    /\ [](PollerRuns /\ ppc = "wait" /\ bail # <<>> => ENABLED web_calls_early_wake)
    /\ [][ppc = "wait" /\ ppc' \notin {"wait", "cancelled"} =>
            /\ ppc' = "request"
            /\ \/ /\ pstep' = "timeout"
                  /\ fired
                  /\ bail' = bail
               \/ /\ pstep' = "refreshing_now"
                  /\ bail # <<>> \/ RendererGone
                  /\ bail # <<>> => bail' = Tail(bail) /\ consumed' = Head(bail)]_vars

\* the wait was ended by a unit sent during it, with the sleep not yet elapsed
C6_Witness == WokenByUnit /\ consumed.in_wait /\ ~fired /\ timer = DefaultSleepTime

(***************************************************************************)
(* Decode failure                                                          *)
(***************************************************************************)
\* C7: a bitmap decode failure is frame-local: it stops neither run_display
\* nor the process.
C7_DecodeFailureIsFrameLocal == rpc # "panicked" /\ exit_code # "panic"

(***************************************************************************)
(* The poll cycle                                                          *)
(***************************************************************************)
\* C8: a parsed directive with status 500, with or without an error message,
\* leads to no image fetch and no enqueue, leaves sleep_time unchanged and
\* sends web_calls back to the loop head.
C8_FailureStatusSkipsCycle ==
    [][ppc = "parsed" /\ resp.status = FailureStatus
         /\ ppc' \notin {"parsed", "cancelled"} =>
            /\ ppc' = "top"
            /\ pstep' \in {"api_error", "api_error_unknown"}
            /\ chan' = chan
            /\ produced' = produced
            /\ sleep_time' = sleep_time]_vars

\* a status 500 without error message was skipped with a non-default interval
\* in force
C8_Witness ==
    ppc = "top" /\ pstep = "api_error_unknown" /\ sleep_time # DefaultSleepTime

\* C9: after a cycle that enqueued an image, sleep_time is the directive's
\* refresh_rate when present and 600 when absent, and the sleep armed next
\* lasts sleep_time.
C9_NextWaitFollowsDirective ==
    /\ [][Len(chan') = Len(chan) + 1 =>
            sleep_time' = IF resp.refresh_rate \in RefreshRates
                          THEN resp.refresh_rate ELSE DefaultSleepTime]_vars
    /\ [][ppc = "top" /\ ~first_run /\ ppc' \notin {"top", "cancelled"} =>
            /\ timer' = sleep_time
            /\ sleep_time' = sleep_time]_vars

\* an image was enqueued under a directive with refresh_rate 30 and the wait
\* that follows is armed with 30 seconds
C9_Witness ==
    ppc = "wait" /\ timer = 30 /\ ~fired /\ produced > 0 /\ sleep_time = 30

C11_MissingImageUrlIsFatal ==
    /\ [][ppc = "parsed" /\ resp.status # FailureStatus /\ ~resp.image_url
             /\ ppc' \notin {"parsed", "cancelled"} =>
            /\ ppc' = "failed"
            /\ pstep' = "no_image_url"
            /\ chan' = chan
            /\ produced' = produced
            /\ sleep_time' = sleep_time]_vars
    /\ [][ppc = "failed" => ppc' = "failed" /\ Len(chan') <= Len(chan)]_vars

\* web_calls ended on a directive without image_url in a later cycle, with
\* the process still running
C11_Witness ==
    /\ ppc = "failed"
    /\ pstep = "no_image_url"
    /\ main = "select"
    /\ sleep_time = 30

\* C12: a tick of run_display that finds several images queued leaves the
\* newest of them on the display, the older ones being superseded in that
\* tick; images are never drawn out of production order.
C12_TickShowsNewestQueued ==
    [][main = "select" /\ rpc = "sleep" /\ frame' # frame /\ chan # <<>> =>
          /\ display' = chan[Len(chan)].seq
          /\ display' > display]_vars

\* C13: the image channel is first-in first-out: the queued images are in the
\* order they were sent, a tick draws the one sent first, and an image drawn
\* in a later tick was sent later, under every interleaving.
C13_ImagesDrawnInSendOrder ==
    /\ [](main = "select" =>
            \A i, j \in 1..Len(chan) : i < j => chan[i].seq < chan[j].seq)
    /\ [][main = "select" /\ rpc = "sleep" /\ frame' # frame /\ chan # <<>> =>
            /\ display' = Head(chan).seq
            /\ display' > display
            /\ \A i \in 2..Len(chan) : chan[i].seq > display']_vars
    /\ [][main' = "select" => display' >= display]_vars

\* the second image sent is on the display, drawn a tick after the first,
\* and a later one waits
C13_Witness ==
    /\ main = "select"
    /\ display = 2
    /\ chan # <<>>

\* C14: the image channel is bounded with backpressure: it never holds more
\* than ImageChannelCapacity images; the send of web_calls suspends only when
\* the channel is full, stays suspended while it is full, and completes by
\* queueing that same image; and while run_display runs no image is dropped
\* or overwritten: every image sent is the one on the display, an earlier
\* one, or still queued, and the one being sent is still held by web_calls.
C14_BoundedWithBackpressure ==
    /\ [](Len(chan) <= ImageChannelCapacity)
    /\ [](main = "select" =>
            /\ \A i \in 1..Len(chan) : chan[i].seq = display + i
            /\ produced = display + Len(chan) + (IF ppc = "send" THEN 1 ELSE 0)
            /\ ppc = "send" => new_bytes.seq = produced)
    /\ [](main = "select" /\ ppc = "send" /\ Len(chan) = ImageChannelCapacity =>
            ~ENABLED web_calls_send_resume)
    /\ [][ppc # "send" /\ ppc' = "send" =>
            Len(chan) = ImageChannelCapacity /\ chan' = chan]_vars
    /\ [][main = "select" /\ ppc = "send" /\ ppc' \notin {"send", "cancelled"} =>
            chan' = Append(chan, new_bytes)]_vars

\* web_calls is suspended in its send with the channel full
C14_Witness ==
    /\ main = "select"
    /\ ppc = "send"
    /\ Len(chan) = ImageChannelCapacity
    /\ rpc = "sleep"

\* C15: run_display never blocks on an empty image channel: with the 250ms
\* sleep over and nothing queued the tick can run, it draws nothing (the
\* display keeps what it showed), and it goes on to window.update and the
\* events, where a Quit is handled as in any other tick.
C15_EmptyChannelTickGoesOn ==
    /\ [](RendererRuns /\ rpc = "sleep" /\ chan = <<>> =>
            /\ ENABLED (run_display_tick /\ frame' # frame /\ rpc' = "sleep")
            /\ ENABLED (run_display_tick /\ frame' # frame /\ rpc' = "returned"))
    /\ [][main = "select" /\ rpc = "sleep" /\ chan = <<>> /\ frame' # frame =>
            /\ display' = display
            /\ chan' = <<>>
            /\ rpc' \in {"sleep", "send", "returned"}
            /\ exit_code' # "panic"]_vars

\* a tick has run before web_calls sent any image
C15_Witness ==
    /\ main = "select"
    /\ produced = 0
    /\ frame = 1
    /\ display = 0
    /\ rpc = "sleep"

\* C16: only the first wait is suppressed: web_calls reaches its first status
\* request from the start of the loop with no sleep armed, and every later
\* status request after one select! on a sleep of sleep_time and the bail
\* channel, ended by the sleep or by the channel; after cycles that were all
\* skipped on a failed request, a malformed body or status 500 that sleep is
\* the default.
C16_OnlyFirstWaitSuppressed ==
    /\ [][ppc # "request" /\ ppc' = "request" =>
            \/ /\ ppc = "top"
               /\ first_run
               /\ pstep = "start"
               /\ pstep' = "first_run"
               /\ timer' = timer
            \/ /\ ppc = "top"
               /\ ~first_run
               /\ timer' = sleep_time
               /\ pstep' = "refreshing_now"
            \/ /\ ppc = "wait"
               /\ ~first_run
               /\ timer = sleep_time
               /\ \/ pstep' = "timeout" /\ fired
                  \/ pstep' = "refreshing_now"]_vars
    /\ [][ppc = "top" /\ ppc' = "wait" =>
            ~first_run /\ timer' = sleep_time /\ ~fired']_vars
    /\ [][/\ ppc = "top"
          /\ pstep \in {"get_failed", "parse_failed", "api_error", "api_error_unknown"}
          /\ produced = 0
          /\ ppc' \notin {"top", "cancelled"}
          => timer' = DefaultSleepTime /\ ppc' \in {"wait", "request"}]_vars

\* the second status request, after a first cycle that sent no image and a
\* default sleep that ran out
C16_Witness ==
    /\ main = "select"
    /\ ppc = "request"
    /\ pstep = "timeout"
    /\ produced = 0
    /\ timer = DefaultSleepTime

\* C17: success is "status is not 500", not "status is 0": a directive with
\* any other status and an image_url goes on to the fetch, and its image is
\* enqueued and sleep_time updated from its refresh_rate, whatever the status
\* and the error field; with any other status and no image_url web_calls
\* ends with an error, error message or not.
C17_SuccessIsNotFailureStatus ==
    /\ [][ppc = "parsed" /\ resp.status # FailureStatus
             /\ ppc' \notin {"parsed", "cancelled"} =>
            IF resp.image_url
            THEN ppc' = "fetch" /\ pstep' = "fetching" /\ resp' = resp
            ELSE ppc' = "failed" /\ pstep' = "no_image_url"]_vars
    /\ [](ppc \in {"fetch", "send"} =>
            resp.status \in Statuses \ {FailureStatus} /\ resp.image_url)
    /\ [][(ppc \in {"fetch", "send"}) /\ pstep' = "enqueued" =>
            /\ Len(chan') = Len(chan) + 1
            /\ chan'[Len(chan')].seq = produced'
            /\ sleep_time' = IF resp.refresh_rate = None THEN DefaultSleepTime
                             ELSE resp.refresh_rate]_vars

\* a directive with status 200 and an error message has led to the fetch
C17_Witness ==
    /\ main = "select"
    /\ ppc = "fetch"
    /\ resp.status = 200
    /\ resp.error

\* the batch up to and including its first Quit event
UpToQuit(evs) ==
    LET i == CHOOSE k \in 1..Len(evs) :
                 evs[k] = "Quit" /\ \A j \in 1..(k - 1) : evs[j] # "Quit"
    IN  SubSeq(evs, 1, i)

\* the batches in which events follow a Quit event
QuitBatches ==
    {evs \in SeqsUpTo(Events, MaxEvents) :
        \E i \in 1..(Len(evs) - 1) : evs[i] = "Quit"}

\* C18: a Quit event ends run_display at once: the events after it in the
\* batch are not handled (the batch leaves the bail channel as its part up to
\* the Quit does, so a later Return sends nothing); from then on nothing is
\* drained, drawn or presented and no unit is sent; main returns Ok(()) and
\* the exit cancels web_calls wherever it is.
C18_QuitEndsRendererAtOnce ==
    /\ [](\A evs \in QuitBatches :
            LET r == HandleEvents(evs, bail)
            IN  r.pc = "returned" =>
                    r.pending = <<>> /\ r = HandleEvents(UpToQuit(evs), bail))
    /\ [][rpc # "returned" /\ rpc' = "returned" =>
            /\ main' = "exiting"
            /\ exit_code' = "ok"
            /\ pending' = <<>>
            /\ Len(bail') <= BailChannelCapacity]_vars
    /\ [](rpc = "returned" =>
            /\ main # "select"
            /\ exit_code = "ok"
            /\ main = "exiting" => ENABLED main_exit
            /\ main = "exited" => PollerGone)
    /\ [][rpc = "returned" /\ main' = "exiting" =>
            /\ rpc' = "returned"
            /\ display' = display
            /\ frame' = frame
            /\ chan' = chan
            /\ bail' = bail \/ bail' = Tail(bail)]_vars

\* run_display returned on a Quit while web_calls was in its wait; the
\* process has exited with success and web_calls is cancelled
C18_Witness ==
    /\ rpc = "returned"
    /\ main = "exited"
    /\ exit_code = "ok"
    /\ ppc = "cancelled"

\* C19: the two loops cannot deadlock each other: in no reachable state is
\* run_display suspended in its send on the full bail channel while web_calls
\* is suspended in its send on the full image channel.
C19_LoopsNeverBlockEachOther ==
    ~ /\ main = "select"
      /\ rpc = "send"
      /\ Len(bail) = BailChannelCapacity
      /\ ppc = "send"
      /\ Len(chan) = ImageChannelCapacity

\* C20: every image web_calls enqueues is in the end drained and drawn by
\* run_display, unless Ctrl-C, a Quit event or a decode failure ends the
\* process first, when both loops are scheduled fairly. On finite runs: while
\* the process runs with decodable images queued, one of the loops can take
\* a step, so that something other than Ctrl-C can happen and the drawing can
\* still come.
C20_QueuedImageCanStillBeDrawn ==
    main = "select" /\ chan # <<>> /\ BadQueued = 0 =>
        ENABLED (Next /\ rpc' # "cancelled")

====
